---- MODULE Spec2Model ----
(***************************************************************************)
(* Model of the oscar-test-automator browser controller                    *)
(* (src/browser_controller.py): the session life cycle (start, stop) and   *)
(* the bounded-retry site visit (visit_site, _simulate_user_behavior).     *)
(*                                                                         *)
(* Strings whose characters matter (URLs) are sequences of one-character   *)
(* strings.  Time is counted in whole seconds; `now` is the reading of     *)
(* time.time().  The driver and the random module are the environment:     *)
(* what they return, what they raise and how long they take are chosen     *)
(* with \E from small sets.  The history variables record what a call of   *)
(* visit_site did to the driver and to the clock; the code never reads     *)
(* them.                                                                   *)
(*                                                                         *)
(* Further sections model the site catalog (src/config_loader.py) and the  *)
(* orchestrator (src/test_automator.py): the loading of the sites, the     *)
(* parsing of the --duration option and TestAutomator.run.  Each section   *)
(* has its own initial predicate and specification.                        *)
(***************************************************************************)
EXTENDS Integers, Sequences, FiniteSets, TLC

VARIABLES
    simulate_behavior,  \* self.simulate_behavior, fixed at construction
    driver,             \* self.driver: None, or the id of a browser session
    next_session,       \* number of browser sessions created so far
    quit_log,           \* ids of the sessions quit() was invoked on, in order
    start_result,       \* what the last start() returned ("none" before any)
    pc,                 \* position inside visit_site ("idle" between calls,
                        \* "returned" while the caller holds the outcome)
    url_arg,            \* the url argument of the current / last call
    url,                \* the local url after the protocol check
    duration_seconds,   \* the duration_seconds argument
    attempt,            \* the loop variable of the retry loop
    start_time,         \* the local start_time of the current attempt
    end_time,           \* end_time of _simulate_user_behavior
    viewport_height,    \* viewport_height of _simulate_user_behavior
    scroll_count,       \* scroll_count of _simulate_user_behavior
    now,                \* the wall clock, time.time()
    result,             \* the value visit_site returned (NoResult in a call)
    entry_time,         \* history: clock reading on entry into visit_site
    return_time,        \* history: clock reading when visit_site returned
    trace,              \* history: the driver.get calls and backoff sleeps
    fails,              \* history: exception class of each failed attempt
    driver_called,      \* history: whether the call has used the driver
    sim_scripts,        \* history: execute_script calls of the simulation
    dwell_sleeps,       \* history: number of sleeps of the dwell phase
    dwell_slept,        \* history: seconds slept in the dwell phase
    last_sleep,         \* history: the last time.sleep of the dwell phase
    last_stop,          \* history: the stop() that returned last, if no
                        \* start() has been called since
    in_with,            \* the controller is the subject of a with-block
    browser_categories, \* ConfigLoader.browser_categories, as loaded
    catalog_pc,         \* "none", or the state of a ConfigLoader
    all_sites,          \* the list get_all_sites() returned
    category_name,      \* the argument of get_sites_by_category
    sites_by_category,  \* the list get_sites_by_category returned
    listed_categories,  \* the list get_categories() returned
    category_count,     \* the dict get_category_count() returned
    run_pc,             \* position inside TestAutomator.run ("none" when
                        \* no automator exists)
    args_duration,      \* args.duration, in minutes
    browser_controller, \* TestAutomator.browser_controller is not None
    total_sites,        \* TestAutomator.total_sites
    run_start,          \* TestAutomator.start_time (NoTime for None)
    site_index,         \* the local site_index of run
    sites_visited,      \* TestAutomator.sites_visited
    sites_failed,       \* TestAutomator.sites_failed
    activities_logged,  \* len(TestAutomator.activities_logged)
    failed_sites,       \* len(TestAutomator.failed_sites)
    exit_code,          \* the value run returns (NoExit before it does)
    pending,            \* the exception in flight out of run's try
    stop_calls,         \* history: stop() calls made by run
    args_categories,    \* args.categories, split at the commas (<<>>
                        \* when the option is absent or empty)
    args_sample,        \* args.sample (0 when the option is absent)
    args_randomize,     \* args.randomize
    load_pc,            \* "none", or the state of a _load_test_sites call
    test_sites,         \* the list _load_test_sites() returned
    time_str,           \* the --duration option as it was typed
    parse_pc,           \* "none", or the state of main's duration parsing
    args_times,         \* <<args.min_time, args.max_time>>
    visit_log,          \* history: the site each visit of run took, as
                        \* its position in the list of sites
    activity_entries,   \* TestAutomator.activities_logged: an entry per
                        \* activity, named by its visit and its site
    failure_entries,    \* TestAutomator.failed_sites: an entry per
                        \* failure, with visit, site and reason
    written             \* the files run has written: the rows of the CSV
                        \* and the failures the summary report lists

vars == <<simulate_behavior, driver, next_session, quit_log,
          start_result, pc, url_arg, url, duration_seconds, attempt,
          start_time, end_time, viewport_height, scroll_count, now, result,
          entry_time, return_time, trace, fails, driver_called, sim_scripts,
          dwell_sleeps, dwell_slept, last_sleep, last_stop, in_with,
          browser_categories, catalog_pc, all_sites, category_name,
          sites_by_category, listed_categories, category_count, run_pc,
          args_duration,
          browser_controller, total_sites, run_start, site_index,
          sites_visited, sites_failed, activities_logged, failed_sites,
          exit_code, pending, stop_calls, args_categories, args_sample,
          args_randomize, load_pc, test_sites, time_str, parse_pc,
          args_times, visit_log, activity_entries, failure_entries, written>>

\* what the other views of a ConfigLoader returned
view_vars == <<category_name, sites_by_category, listed_categories,
               category_count>>

catalog_vars == <<browser_categories, catalog_pc, all_sites, view_vars>>

run_vars == <<run_pc, args_duration, browser_controller, total_sites, run_start, site_index,
              sites_visited, sites_failed, activities_logged, failed_sites,
              exit_code, pending, stop_calls, args_times, visit_log,
              activity_entries, failure_entries, written>>

load_vars == <<args_categories, args_sample, args_randomize, load_pc,
               test_sites>>

\* what the methods of a BrowserController never touch
parse_vars == <<time_str, parse_pc>>

\* the configuration and the command line
config_vars == <<catalog_vars, load_vars, parse_vars>>

\* what the methods of a BrowserController never touch
other_vars == <<in_with, config_vars, run_vars>>

lifecycle_vars == <<driver, next_session, quit_log, start_result>>

args_vars == <<url_arg, url, duration_seconds, entry_time>>

sim_vars == <<end_time, viewport_height, scroll_count>>

dwell_vars == <<dwell_sleeps, dwell_slept, last_sleep>>

\* the arguments, locals and history of a visit_site call, the clock apart
call_vars == <<pc, args_vars, attempt, start_time, sim_vars, result,
               return_time, trace, fails, driver_called, sim_scripts,
               dwell_vars>>

-----------------------------------------------------------------------------
(* Bounds of the model *)

MaxSessions == 1        \* sessions a controller may create
MaxDwell == 2           \* largest duration_seconds argument
MaxNavTime == 1         \* longest a driver.get / ready wait takes
MaxScriptTime == 2      \* longest an execute_script of the simulation takes

DwellTimes == 0..MaxDwell
NavTimes == 0..MaxNavTime
ScriptTimes == 0..MaxScriptTime

\* clock readings on entry into visit_site
ClockStarts == {0, 1}

-----------------------------------------------------------------------------
(* Program constants *)

\* self.driver = None: no session (the sessions are numbered from 1)
None == 0

MAX_RETRIES == 2

RETRY_DELAY == 8

max_scrolls == 5

\* random.uniform(2, 5), in whole seconds
PauseTimes == 2..5

\* values 'return window.innerHeight' may give
ViewportHeights == {0, 5}

NoSleep == [why |-> "none", secs |-> 0, left |-> 0]

-----------------------------------------------------------------------------
(* Strings as character sequences *)

S_http == <<"h", "t", "t", "p", ":", "/", "/">>

S_https == <<"h", "t", "t", "p", "s", ":", "/", "/">>

\* str.startswith(prefix)
StartsWith(s, prefix) ==
    /\ Len(s) >= Len(prefix)
    /\ SubSeq(s, 1, Len(prefix)) = prefix

\* url arguments the callers pass
Urls == { <<"a">>,
          <<"h", "t", "t", "p", ":", "/", "/", "a">>,
          <<"h", "t", "t", "p", "s", ":", "/", "/", "a">>,
          <<"H", "t", "t", "p", ":", "/", "/", "a">> }

Min(a, b) == IF a <= b THEN a ELSE b

-----------------------------------------------------------------------------
(* Pure parts of visit_site *)

\* faulty variant: only the 'http://' prefix is looked for
NormalizeUrl_HttpOnly(u) ==
    IF StartsWith(u, S_http) THEN u ELSE S_https \o u

\* if not url.startswith(('http://', 'https://')): url = f'https://{url}'
NormalizeUrl(u) ==
    IF StartsWith(u, S_http) \/ StartsWith(u, S_https) THEN u ELSE S_https \o u

\* for attempt in range(self.MAX_RETRIES + 1)
LoopRange == 0..MAX_RETRIES

\* faulty variant: one retry too many (<= for <)
CanRetry_OffByOne(a) == a <= MAX_RETRIES

\* faulty variant: gives up one attempt early
CanRetry_GivesUpEarly(a) == a < MAX_RETRIES - 1

\* if attempt < self.MAX_RETRIES (both retrying handlers)
CanRetry(a) == a < MAX_RETRIES

\* faulty variant: the exponential backoff the module docstring speaks of
BackoffDelay_Exponential(a) == RETRY_DELAY * (2 ^ a)

\* time.sleep(self.RETRY_DELAY): the pause before retry number a + 1
BackoffDelay(a) == RETRY_DELAY

\* faulty variant: the zero-based loop variable is reported
AttemptsUsed_ZeroBased(a) == a

\* 'attempts': attempt + 1
AttemptsUsed(a) == a + 1

\* faulty variant: the time is taken from the entry into visit_site
Elapsed_FromEntry(t, t0) == t - entry_time

\* elapsed = time.time() - start_time
Elapsed(t, t0) == t - t0

NoResult == [status |-> "none"]

\* the implicit return of a function whose loop runs out
ImplicitNone == [status |-> "None"]

\* no return at all: the exception leaves visit_site
Raised(kind) == [status |-> "raised", exception |-> kind]

NotStartedResult(u) ==
    [url |-> u, status |-> "error", error |-> "Browser not started",
     duration |-> 0]

SuccessResult(u, elapsed, a) ==
    [url |-> u, status |-> "success", duration |-> elapsed,
     attempts |-> AttemptsUsed(a)]

TimeoutResult(u, a) ==
    [url |-> u, status |-> "timeout",
     error |-> "Page load timeout after retries", duration |-> 0,
     attempts |-> AttemptsUsed(a)]

\* the two handlers that return str(e): e names the exception class here
ErrorResult(u, e, a) ==
    [url |-> u, status |-> "error", error |-> e, duration |-> 0,
     attempts |-> AttemptsUsed(a)]

\* What a driver call inside the try block does: it returns, or it raises
\* TimeoutException, another WebDriverException, or any other Exception.
NavOutcomes == {"ok", "TimeoutException", "WebDriverException", "Exception"}

\* an execute_script of the simulation returns or raises
ScriptOutcomes == {"ok", "raise"}

GetEvent(u) == [op |-> "get", url |-> u]

BackoffEvent(secs) == [op |-> "sleep", secs |-> secs]

-----------------------------------------------------------------------------
(* Values of the variables that belong to no object yet *)

NoStop == [via |-> "none", quit |-> "not called", session |-> None]

\* datetime values are clock readings >= 0; None is kept apart from them
NoTime == 0 - 1

\* run has not returned
NoExit == 0 - 1

\* no view of the catalog has been asked for
NoViews ==
    /\ category_name = ""
    /\ sites_by_category = <<>>
    /\ listed_categories = <<>>
    /\ category_count = <<>>

\* no ConfigLoader has been constructed
NoCatalog ==
    /\ browser_categories = <<>>
    /\ catalog_pc = "none"
    /\ all_sites = <<>>
    /\ NoViews

\* no file has been written
NothingWritten ==
    [csv |-> FALSE, rows |-> <<>>, report |-> FALSE, failed |-> <<>>]

\* no TestAutomator has been constructed
NoRun ==
    /\ run_pc = "none"
    /\ args_duration = 0
    /\ browser_controller = FALSE
    /\ total_sites = 0
    /\ run_start = NoTime
    /\ site_index = 0
    /\ sites_visited = 0
    /\ sites_failed = 0
    /\ activities_logged = 0
    /\ failed_sites = 0
    /\ exit_code = NoExit
    /\ pending = "none"
    /\ stop_calls = 0
    /\ args_times = <<0, 0>>
    /\ visit_log = <<>>
    /\ activity_entries = <<>>
    /\ failure_entries = <<>>
    /\ written = NothingWritten

\* _load_test_sites has not been called
NoLoad ==
    /\ args_categories = <<>>
    /\ args_sample = 0
    /\ args_randomize = FALSE
    /\ load_pc = "none"
    /\ test_sites = <<>>

\* main has parsed no duration
NoParse ==
    /\ time_str = <<>>
    /\ parse_pc = "none"

-----------------------------------------------------------------------------
(* Construction *)

\* BrowserController.__init__: no driver; nothing has been called yet
NewController ==
    /\ driver = None
    /\ next_session = 0
    /\ quit_log = <<>>
    /\ start_result = "none"
    /\ pc = "idle"
    /\ url_arg = <<>>
    /\ url = <<>>
    /\ duration_seconds = 0
    /\ attempt = 0
    /\ start_time = 0
    /\ end_time = 0
    /\ viewport_height = 0
    /\ scroll_count = 0
    /\ now = 0
    /\ result = NoResult
    /\ entry_time = 0
    /\ return_time = 0
    /\ trace = <<>>
    /\ fails = <<>>
    /\ driver_called = FALSE
    /\ sim_scripts = 0
    /\ dwell_sleeps = 0
    /\ dwell_slept = 0
    /\ last_sleep = NoSleep
    /\ last_stop = NoStop
    /\ in_with = FALSE

\* a controller constructed by its user, with simulate_behavior as the user
\* chose it
Init ==
    /\ simulate_behavior \in BOOLEAN
    /\ NewController
    /\ NoCatalog
    /\ NoRun
    /\ NoLoad
    /\ NoParse

-----------------------------------------------------------------------------
(* Session life cycle *)

\* The body of start(): the _start_<browser>() call creates the session (or
\* raises, and self.driver keeps its old value); set_page_load_timeout may
\* raise after the assignment.  Any exception is caught and start() returns
\* False.  A controller creates `limit` sessions at most.
StartBody(limit) ==
    /\ \E o \in {"ok", "create_raises", "timeout_raises"} :
         IF o = "create_raises"
         THEN /\ start_result' = "False"
              /\ UNCHANGED <<driver, next_session>>
         ELSE /\ next_session < limit
              /\ next_session' = next_session + 1
              /\ driver' = next_session + 1
              /\ start_result' = IF o = "ok" THEN "True" ELSE "False"
    /\ last_stop' = NoStop
    /\ UNCHANGED quit_log

\* start()
Start ==
    /\ pc = "idle"
    /\ StartBody(MaxSessions)
    /\ UNCHANGED <<other_vars, simulate_behavior, pc, args_vars, attempt,
                   start_time, sim_vars, now, result, return_time, trace,
                   fails, driver_called, sim_scripts, dwell_vars>>

\* what driver.quit() does: it returns, or it raises
QuitOutcomes == {"ok", "raises"}

\* if self.driver
QuitNeeded == driver # None

\* faulty variant: the handle is cleared only when quit() returned
DriverAfterStop_KeptOnError(q) == IF q = "raises" THEN driver ELSE None

\* finally: self.driver = None
DriverAfterStop(q) == None

\* The body of stop(), reached by the way `via`: quit() on the session
\* held, if any; an exception of quit() is logged; the handle is cleared in
\* the finally clause whether or not quit() raised.
StopBody(via) ==
    /\ IF QuitNeeded
       THEN \E q \in QuitOutcomes :
              /\ quit_log' = Append(quit_log, driver)
              /\ driver' = DriverAfterStop(q)
              /\ last_stop' = [via |-> via, quit |-> q, session |-> driver]
       ELSE /\ UNCHANGED <<driver, quit_log>>
            /\ last_stop' = [via |-> via, quit |-> "not called",
                             session |-> None]
    /\ UNCHANGED <<next_session, start_result>>

\* stop()
Stop ==
    /\ pc = "idle"
    /\ StopBody("stop")
    /\ UNCHANGED <<other_vars, simulate_behavior, pc, args_vars, attempt,
                   start_time, sim_vars, now, result, return_time, trace,
                   fails, driver_called, sim_scripts, dwell_vars>>

-----------------------------------------------------------------------------
(* visit_site *)

\* faulty variant: the check for a missing driver is left out
NotStarted_Unchecked == FALSE

\* if not self.driver
NotStarted == driver = None

\* a return statement of visit_site: value r, at clock t
Return(r, t) ==
    /\ result' = r
    /\ return_time' = t
    /\ now' = t
    /\ pc' = "returned"

\* the locals of _simulate_user_behavior are gone once it has returned
SimLocalsGone ==
    /\ end_time' = 0
    /\ viewport_height' = 0

\* Entry into visit_site(u, d) with the clock reading c.  Without a driver
\* the call returns at once; otherwise the url gets its protocol and the
\* retry loop is entered with attempt = 0.
VisitEnter(u, d, c) ==
    /\ pc = "idle"
    /\ url_arg' = u
    /\ duration_seconds' = d
    /\ entry_time' = c
    /\ attempt' = 0
    /\ start_time' = 0
    /\ end_time' = 0
    /\ viewport_height' = 0
    /\ scroll_count' = 0
    /\ trace' = <<>>
    /\ fails' = <<>>
    /\ driver_called' = FALSE
    /\ sim_scripts' = 0
    /\ dwell_sleeps' = 0
    /\ dwell_slept' = 0
    /\ last_sleep' = NoSleep
    /\ IF NotStarted
       THEN /\ url' = u
            /\ Return(NotStartedResult(u), c)
       ELSE /\ url' = NormalizeUrl(u)
            /\ now' = c
            /\ return_time' = c
            /\ result' = NoResult
            /\ pc' = "get"
    /\ UNCHANGED <<last_stop, other_vars, simulate_behavior, lifecycle_vars>>

VisitCall ==
    \E u \in Urls, d \in DwellTimes, c \in ClockStarts : VisitEnter(u, d, c)

\* The caller has taken the outcome: the call, its arguments and locals and
\* its history are over, and the controller is idle again.
VisitReturned ==
    /\ pc = "returned"
    /\ pc' = "idle"
    /\ url_arg' = <<>>
    /\ url' = <<>>
    /\ duration_seconds' = 0
    /\ attempt' = 0
    /\ start_time' = 0
    /\ scroll_count' = 0
    /\ now' = 0
    /\ result' = NoResult
    /\ entry_time' = 0
    /\ return_time' = 0
    /\ trace' = <<>>
    /\ fails' = <<>>
    /\ driver_called' = FALSE
    /\ sim_scripts' = 0
    /\ dwell_sleeps' = 0
    /\ dwell_slept' = 0
    /\ last_sleep' = NoSleep
    /\ UNCHANGED <<last_stop, other_vars, simulate_behavior, lifecycle_vars, end_time, viewport_height>>

\* faulty variant: the WebDriverException clause is written first
Handler_WebDriverFirst(kind) ==
    IF kind \in {"TimeoutException", "WebDriverException"} THEN "webdriver"
    ELSE IF kind \in {"TimeoutException"} THEN "timeout"
    ELSE IF kind \in {"TimeoutException", "WebDriverException", "Exception"}
    THEN "unexpected"
    ELSE "uncaught"

\* faulty variant: no catch-all clause
Handler_NoCatchAll(kind) ==
    IF kind \in {"TimeoutException"} THEN "timeout"
    ELSE IF kind \in {"TimeoutException", "WebDriverException"} THEN "webdriver"
    ELSE "uncaught"

\* The except clause that takes an exception of class `kind`, the clauses
\* being tried in the order written.  TimeoutException is a subclass of
\* WebDriverException, which is a subclass of Exception; a class outside
\* Exception is taken by no clause.
Handler(kind) ==
    IF kind \in {"TimeoutException"} THEN "timeout"
    ELSE IF kind \in {"TimeoutException", "WebDriverException"} THEN "webdriver"
    ELSE IF kind \in {"TimeoutException", "WebDriverException", "Exception"}
    THEN "unexpected"
    ELSE "uncaught"

\* what a retrying clause returns when attempt = MAX_RETRIES
ExhaustedResult(h, u, kind, a) ==
    IF h = "timeout" THEN TimeoutResult(u, a) ELSE ErrorResult(u, kind, a)

\* An exception of class `kind` raised inside the try block at clock t,
\* with the history tr.  The "unexpected" clause returns at once.  A
\* retrying clause sleeps and lets the loop go on; were the loop exhausted
\* then, the function would return None.
OnFailure(kind, t, tr) ==
    LET h == Handler(kind) IN
    /\ fails' = Append(fails, kind)
    /\ IF h = "uncaught"
       THEN /\ Return(Raised(kind), t)
            /\ trace' = tr
            /\ attempt' = attempt
       ELSE IF h = "unexpected"
       THEN /\ Return(ErrorResult(url, kind, attempt), t)
            /\ trace' = tr
            /\ attempt' = attempt
       ELSE IF CanRetry(attempt)
       THEN LET d == BackoffDelay(attempt) IN
            /\ trace' = Append(tr, BackoffEvent(d))
            /\ IF attempt + 1 \in LoopRange
               THEN /\ attempt' = attempt + 1
                    /\ pc' = "get"
                    /\ now' = t + d
                    /\ UNCHANGED <<result, return_time>>
               ELSE /\ Return(ImplicitNone, t + d)
                    /\ attempt' = attempt
       ELSE /\ Return(ExhaustedResult(h, url, kind, attempt), t)
            /\ trace' = tr
            /\ attempt' = attempt

\* start_time = time.time(); self.driver.get(url)
Get ==
    /\ pc = "get"
    /\ start_time' = now
    /\ driver_called' = TRUE
    /\ \E o \in NavOutcomes, t \in NavTimes :
         LET tr == Append(trace, GetEvent(url)) IN
         IF o = "ok"
         THEN /\ pc' = "ready"
              /\ now' = now + t
              /\ trace' = tr
              /\ UNCHANGED <<attempt, fails, result, return_time>>
         ELSE OnFailure(o, now + t, tr)
    /\ UNCHANGED <<last_stop, other_vars, simulate_behavior, lifecycle_vars, args_vars, sim_vars,
                   sim_scripts, dwell_vars>>

\* faulty variant: the behaviour simulation is run whatever the flag says
SimulationChosen_Always == simulate_behavior \/ ~simulate_behavior

\* if self.simulate_behavior
SimulationChosen == simulate_behavior

\* WebDriverWait(self.driver, 10).until(readyState == 'complete'), then the
\* choice between the simulation and the plain sleep
ReadyWait ==
    /\ pc = "ready"
    /\ driver_called' = TRUE
    /\ \E o \in NavOutcomes, t \in NavTimes :
         IF o = "ok"
         THEN /\ pc' = IF SimulationChosen THEN "sim_page" ELSE "dwell"
              /\ now' = now + t
              /\ UNCHANGED <<attempt, fails, result, return_time, trace>>
         ELSE OnFailure(o, now + t, trace)
    /\ UNCHANGED <<last_stop, other_vars, simulate_behavior, lifecycle_vars, args_vars, start_time,
                   sim_vars, sim_scripts, dwell_vars>>

\* the success return, reached at clock t when the dwell is over
ReturnSuccess(t) ==
    Return(SuccessResult(url, Elapsed(t, start_time), attempt), t)

\* else: time.sleep(duration_seconds), then the success return
Dwell ==
    /\ pc = "dwell"
    /\ dwell_sleeps' = dwell_sleeps + 1
    /\ dwell_slept' = dwell_slept + duration_seconds
    /\ last_sleep' = [why |-> "dwell", secs |-> duration_seconds,
                      left |-> duration_seconds]
    /\ ReturnSuccess(now + duration_seconds)
    /\ UNCHANGED <<last_stop, other_vars, simulate_behavior, lifecycle_vars, args_vars, attempt,
                   start_time, sim_vars, trace, fails, driver_called,
                   sim_scripts>>

-----------------------------------------------------------------------------
(* _simulate_user_behavior, and the success return that follows it *)

\* random.randint(int(viewport_height * 0.1), int(viewport_height * 0.4))
ScrollDistances(vh) == ((vh * 1) \div 10)..((vh * 4) \div 10)

\* remaining = end_time - time.time()
Remaining(e, t) == e - t

\* min(pause_time, end_time - time.time())
PauseLength(pause, e, t) == Min(pause, Remaining(e, t))

\* "if remaining > 0: time.sleep(remaining)" at clock t with end_time e,
\* then, back in visit_site, the success return.  `why` tells the normal
\* end of the simulation ("rest") from its except clause ("fallback"); ls is
\* the last sleep so far.
SleepOut(why, e, t, ls) ==
    LET remaining == Remaining(e, t) IN
    /\ SimLocalsGone
    /\ IF remaining > 0
       THEN /\ dwell_sleeps' = dwell_sleeps + 1
            /\ dwell_slept' = dwell_slept + remaining
            /\ last_sleep' = [why |-> why, secs |-> remaining, left |-> remaining]
            /\ ReturnSuccess(t + remaining)
       ELSE /\ last_sleep' = ls
            /\ UNCHANGED <<dwell_sleeps, dwell_slept>>
            /\ ReturnSuccess(t)

\* faulty variant: the exception leaves the simulation and is taken by the
\* catch-all clause of visit_site
SimFailure_FailsVisit(e, t, ls) ==
    /\ SimLocalsGone
    /\ last_sleep' = ls
    /\ UNCHANGED <<dwell_sleeps, dwell_slept>>
    /\ Return(ErrorResult(url, "Exception", attempt), t)

\* "except Exception" of the simulation: an exception raised in its try
\* block at clock t is logged, and the time left until e is slept out
SimFailure(e, t, ls) == SleepOut("fallback", e, t, ls)

\* end_time = time.time() + duration_seconds; page_height = execute_script(..)
SimPage ==
    /\ pc = "sim_page"
    /\ sim_scripts' = sim_scripts + 1
    /\ \E o \in ScriptOutcomes, t \in ScriptTimes :
         LET e == now + duration_seconds IN
         IF o = "ok"
         THEN /\ pc' = "sim_viewport"
              /\ end_time' = e
              /\ now' = now + t
              /\ UNCHANGED <<viewport_height, result, return_time, dwell_vars>>
         ELSE SimFailure(e, now + t, last_sleep)
    /\ UNCHANGED <<last_stop, other_vars, simulate_behavior, lifecycle_vars, args_vars, attempt,
                   start_time, scroll_count, trace, fails, driver_called>>

\* viewport_height = execute_script('return window.innerHeight');
\* scroll_count = 0
SimViewport ==
    /\ pc = "sim_viewport"
    /\ sim_scripts' = sim_scripts + 1
    /\ \E o \in ScriptOutcomes, t \in ScriptTimes, vh \in ViewportHeights :
         IF o = "ok"
         THEN /\ pc' = "sim_loop"
              /\ viewport_height' = vh
              /\ scroll_count' = 0
              /\ now' = now + t
              /\ UNCHANGED <<end_time, result, return_time, dwell_vars>>
         ELSE /\ SimFailure(end_time, now + t, last_sleep)
              /\ UNCHANGED scroll_count
    /\ UNCHANGED <<last_stop, other_vars, simulate_behavior, lifecycle_vars, args_vars, attempt,
                   start_time, trace, fails, driver_called>>

\* faulty variant: the loop is bounded by the clock alone
LoopGuard_NoCap == now < end_time

\* while time.time() < end_time and scroll_count < max_scrolls
LoopGuard == now < end_time /\ scroll_count < max_scrolls

\* One pass of the loop body: the scroll script (by a distance the model
\* does not keep), scroll_count += 1, and
\* time.sleep(min(pause_time, end_time - time.time())).  time.sleep raises
\* ValueError for a negative length; like an exception of the script it
\* lands in the except clause.  "if time.time() >= end_time: break".
SimScroll ==
    /\ pc = "sim_loop"
    /\ LoopGuard
    /\ sim_scripts' = sim_scripts + 1
    /\ \E dist \in ScrollDistances(viewport_height), o \in ScriptOutcomes,
          t \in ScriptTimes, pause \in PauseTimes :
         LET t1 == now + t
             len == PauseLength(pause, end_time, t1)
             left == Remaining(end_time, t1)
         IN  IF o = "raise"
             THEN /\ SimFailure(end_time, t1, last_sleep)
                  /\ scroll_count' = scroll_count
             ELSE IF len < 0
             THEN /\ SimFailure(end_time, t1,
                               [why |-> "ValueError", secs |-> len, left |-> left])
                  /\ scroll_count' = scroll_count + 1
             ELSE /\ scroll_count' = scroll_count + 1
                  /\ now' = t1 + len
                  /\ dwell_sleeps' = dwell_sleeps + 1
                  /\ dwell_slept' = dwell_slept + len
                  /\ last_sleep' = [why |-> "pause", secs |-> len, left |-> left]
                  /\ pc' = IF t1 + len >= end_time THEN "sim_rest" ELSE "sim_loop"
                  /\ UNCHANGED <<end_time, viewport_height, result, return_time>>
    /\ UNCHANGED <<last_stop, other_vars, simulate_behavior, lifecycle_vars, args_vars, attempt,
                   start_time, trace, fails, driver_called>>

\* after the loop (left by its guard or by the break): sleep the rest
SimRest ==
    /\ \/ pc = "sim_rest"
       \/ pc = "sim_loop" /\ ~LoopGuard
    /\ SleepOut("rest", end_time, now, last_sleep)
    /\ UNCHANGED <<last_stop, other_vars, simulate_behavior, lifecycle_vars, args_vars, attempt,
                   start_time, scroll_count, trace, fails, driver_called,
                   sim_scripts>>

-----------------------------------------------------------------------------
(* Specification *)

Next ==
    \/ Start
    \/ Stop
    \/ VisitCall
    \/ VisitReturned
    \/ Get
    \/ ReadyWait
    \/ Dwell
    \/ SimPage
    \/ SimViewport
    \/ SimScroll
    \/ SimRest

Spec == Init /\ [][Next]_vars

-----------------------------------------------------------------------------
(* The life cycle alone, with the context manager                           *)
(*                                                                          *)
(* start(), stop() and the with-statement on one controller that makes no  *)
(* visit: __enter__ calls start() and returns the controller whatever      *)
(* start() returned; __exit__ calls stop() and returns False, so that an   *)
(* exception of the with-block goes on to the caller.                      *)

MaxLifeSessions == 2    \* sessions the controller of the life cycle creates

\* start(), as often as MaxLifeSessions allows
LifeStart ==
    /\ pc = "idle"
    /\ StartBody(MaxLifeSessions)
    /\ UNCHANGED <<other_vars, simulate_behavior, pc, args_vars, attempt,
                   start_time, sim_vars, now, result, return_time, trace,
                   fails, driver_called, sim_scripts, dwell_vars>>

\* __enter__: self.start(); return self
Enter ==
    /\ pc = "idle"
    /\ ~in_with
    /\ StartBody(MaxLifeSessions)
    /\ in_with' = TRUE
    /\ UNCHANGED <<config_vars, run_vars, simulate_behavior, pc, args_vars,
                   attempt, start_time, sim_vars, now, result, return_time,
                   trace, fails, driver_called, sim_scripts, dwell_vars>>

\* the ways a with-block is left
BlockExits == {"exit", "exit_exception"}

\* __exit__(exc_type, exc_val, exc_tb): self.stop(); return False
Exit ==
    /\ pc = "idle"
    /\ in_with
    /\ \E via \in BlockExits : StopBody(via)
    /\ in_with' = FALSE
    /\ UNCHANGED <<config_vars, run_vars, simulate_behavior, pc, args_vars,
                   attempt, start_time, sim_vars, now, result, return_time,
                   trace, fails, driver_called, sim_scripts, dwell_vars>>

LifeNext ==
    \/ LifeStart
    \/ Stop
    \/ Enter
    \/ Exit

LifeSpec == Init /\ [][LifeNext]_vars

-----------------------------------------------------------------------------
(* TestAutomator.run (src/test_automator.py)                                *)
(*                                                                          *)
(* One automator and the controller it creates.  The configuration, the    *)
(* controller and the file system are the environment of run: how many     *)
(* sites are loaded, whether a call returns or raises, and where the user  *)
(* interrupts, are chosen with \E.  run is one try statement with the      *)
(* clauses "except KeyboardInterrupt", "except Exception" and "finally".   *)

MaxRunMinutes == 1      \* largest args.duration
MaxSites == 2           \* most sites a configuration yields
MaxVisits == 3          \* visits a run may start in the model

\* args.min_time and args.max_time of the runs modelled
args_min_time == 29

args_max_time == 30

\* the --min-time and --max-time options of the runs modelled: main
\* accepts any two integers with min_time <= max_time
TimeRanges == {<<args_min_time, args_max_time>>, <<0 - 1, 0>>}

\* random.randint(self.args.min_time, self.args.max_time)
VisitDurations == args_times[1]..args_times[2]

\* TestAutomator.__init__, called with parsed arguments; the controller is
\* not created before run
RunInit ==
    /\ simulate_behavior = FALSE
    /\ NewController
    /\ NoCatalog
    /\ NoLoad
    /\ NoParse
    /\ run_pc = "ready"
    /\ args_duration \in 1..MaxRunMinutes
    /\ browser_controller = FALSE
    /\ total_sites = 0
    /\ run_start = NoTime
    /\ site_index = 0
    /\ sites_visited = 0
    /\ sites_failed = 0
    /\ activities_logged = 0
    /\ failed_sites = 0
    /\ exit_code = NoExit
    /\ pending = "none"
    /\ stop_calls = 0
    /\ args_times \in TimeRanges
    /\ visit_log = <<>>
    /\ activity_entries = <<>>
    /\ failure_entries = <<>>
    /\ written = NothingWritten

counter_vars == <<sites_visited, sites_failed, activities_logged,
                  failed_sites>>

\* the lists of the automator, and the history of its visits
log_vars == <<visit_log, activity_entries, failure_entries>>

\* sites = self._load_test_sites(): n sites are loaded; with none the
\* method calls sys.exit(1), and SystemExit is taken by neither except
\* clause; get_all_sites may raise on a malformed configuration
RunLoadSites ==
    /\ run_pc = "ready"
    /\ \E o \in {"loaded", "raises"}, n \in 0..MaxSites :
         IF o = "raises"
         THEN /\ pending' = "Exception"
              /\ run_pc' = "failed"
              /\ UNCHANGED total_sites
         ELSE IF n = 0
         THEN /\ pending' = "SystemExit"
              /\ run_pc' = "cleanup"
              /\ UNCHANGED total_sites
         ELSE /\ total_sites' = n
              /\ run_pc' = "create"
              /\ UNCHANGED pending
    /\ UNCHANGED <<simulate_behavior, lifecycle_vars, last_stop, in_with,
                   call_vars, now, config_vars, args_duration,
                   browser_controller, run_start, site_index,
                   counter_vars, log_vars, args_times, written,
                   exit_code, stop_calls>>

\* self.browser_controller = BrowserController(browser_name=..., headless=...):
\* the constructor returns a controller or raises (ValueError for a browser
\* it does not support, TypeError for an argument it does not know)
RunCreate ==
    /\ run_pc = "create"
    /\ \E o \in {"created", "raises"} :
         IF o = "created"
         THEN /\ browser_controller' = TRUE
              /\ run_pc' = "start"
              /\ UNCHANGED pending
         ELSE /\ pending' = "Exception"
              /\ run_pc' = "failed"
              /\ UNCHANGED browser_controller
    /\ UNCHANGED <<simulate_behavior, lifecycle_vars, last_stop, in_with,
                   call_vars, now, config_vars, args_duration, total_sites,
                   run_start, site_index,
                   counter_vars, log_vars, args_times, written,
                   exit_code,
                   stop_calls>>

\* faulty variant: what start() returned is not looked at
BrowserStarted_Unchecked(r) == r \in {"True", "False"}

\* if not self.browser_controller.start(): return 1
BrowserStarted(r) == r = "True"

\* the start of the browser, and self.start_time = datetime.now() when it
\* succeeded
RunStartBrowser ==
    /\ run_pc = "start"
    /\ StartBody(MaxSessions)
    /\ IF BrowserStarted(start_result')
       THEN /\ run_start' = now
            /\ run_pc' = "loop"
            /\ UNCHANGED exit_code
       ELSE /\ exit_code' = 1
            /\ run_pc' = "cleanup"
            /\ UNCHANGED run_start
    /\ UNCHANGED <<simulate_behavior, in_with, call_vars, now, config_vars,
                   args_duration, browser_controller, total_sites, site_index,
                   counter_vars, log_vars, args_times, written,
                   pending, stop_calls>>

\* faulty variant: a visit may start at the very end of the budget
ShouldContinue_Inclusive(t) ==
    IF run_start = NoTime
    THEN TRUE
    ELSE t - run_start <= args_duration * 60

\* _should_continue() at clock t
ShouldContinue(t) ==
    IF run_start = NoTime
    THEN TRUE
    ELSE t - run_start < args_duration * 60

\* while self._should_continue()
RunLoopCheck ==
    /\ run_pc = "loop"
    /\ run_pc' = IF ShouldContinue(now) THEN "visit" ELSE "save"
    /\ UNCHANGED <<simulate_behavior, lifecycle_vars, last_stop, in_with,
                   call_vars, now, config_vars, args_duration,
                   browser_controller, total_sites, run_start, site_index,
                   counter_vars, log_vars, args_times, written,
                   exit_code, pending, stop_calls>>

\* What becomes of one _visit_site call: the page is reached and the pause
\* slept; navigate_to returns False; navigate_to or get_page_title raises
\* an Exception, which _visit_site catches; time.sleep raises ValueError,
\* which _visit_site catches as well; or the user interrupts, during the
\* navigation or during the pause.
VisitOutcomes == {"visited", "not_navigated", "navigate_raises",
                  "title_raises", "pause_raises", "interrupt_in_visit",
                  "interrupt_in_pause"}

\* time.sleep(duration) raises ValueError for a negative duration, and
\* only then
Possible(o, d) ==
    /\ o = "visited" => d >= 0
    /\ o = "pause_raises" <=> d < 0

\* self.activities_logged.append(activity) is reached
LogsActivity(o) == o \in {"visited", "pause_raises", "interrupt_in_pause"}

\* self.failed_sites.append(...) is reached, in the body or in the handler
LogsFailure(o) ==
    o \in {"not_navigated", "navigate_raises", "title_raises", "pause_raises"}

\* the 'reason' of a failure
Reason(o) == IF o = "not_navigated" THEN "Navigation failed" ELSE "str(e)"

\* what _visit_site records for outcome o: <<sites_visited, sites_failed,
\* activities_logged, failed_sites>> after it
Recorded(o) ==
    <<IF o = "visited" THEN sites_visited + 1 ELSE sites_visited,
      IF LogsFailure(o) THEN sites_failed + 1 ELSE sites_failed,
      IF LogsActivity(o) THEN activities_logged + 1 ELSE activities_logged,
      IF LogsFailure(o) THEN failed_sites + 1 ELSE failed_sites>>

\* sites[site_index % len(sites)], as a position counted from 1
NextSite == (site_index % total_sites) + 1

\* One pass of the loop body: the next site, a visit duration d, and
\* _visit_site, whose navigation takes t seconds.
RunVisit ==
    /\ run_pc = "visit"
    /\ site_index < MaxVisits
    /\ site_index' = site_index + 1
    /\ visit_log' = Append(visit_log, NextSite)
    /\ \E o \in VisitOutcomes, d \in VisitDurations, t \in NavTimes :
         /\ Possible(o, d)
         /\ sites_visited' = Recorded(o)[1]
         /\ sites_failed' = Recorded(o)[2]
         /\ activities_logged' = Recorded(o)[3]
         /\ failed_sites' = Recorded(o)[4]
         /\ activity_entries' =
                IF LogsActivity(o)
                THEN Append(activity_entries,
                            [visit |-> site_index + 1, site |-> NextSite])
                ELSE activity_entries
         /\ failure_entries' =
                IF LogsFailure(o)
                THEN Append(failure_entries,
                            [visit |-> site_index + 1, site |-> NextSite,
                             reason |-> Reason(o)])
                ELSE failure_entries
         /\ now' = IF o = "visited" THEN now + t + d ELSE now + t
         /\ IF o \in {"interrupt_in_visit", "interrupt_in_pause"}
            THEN /\ pending' = "KeyboardInterrupt"
                 /\ run_pc' = "interrupted"
            ELSE /\ run_pc' = "recheck"
                 /\ UNCHANGED pending
    /\ UNCHANGED <<simulate_behavior, lifecycle_vars, last_stop, in_with,
                   call_vars, config_vars, args_duration, browser_controller,
                   total_sites, run_start, exit_code, stop_calls, args_times,
                   written>>

\* if not self._should_continue(): break
RunRecheck ==
    /\ run_pc = "recheck"
    /\ run_pc' = IF ShouldContinue(now) THEN "loop" ELSE "save"
    /\ UNCHANGED <<simulate_behavior, lifecycle_vars, last_stop, in_with,
                   call_vars, now, config_vars, args_duration,
                   browser_controller, total_sites, run_start, site_index,
                   counter_vars, log_vars, args_times, written,
                   exit_code, pending, stop_calls>>

\* _save_activities_csv() and _save_summary_report(): the CSV is written
\* only if an activity was logged, and holds a row per activity; the
\* report lists the failed sites.  Writing either file may raise.
SaveOutcomes == {"saved", "csv_raises", "report_raises"}

Saved(o) ==
    [csv    |-> o # "csv_raises" /\ activity_entries # <<>>,
     rows   |-> IF o # "csv_raises" THEN activity_entries ELSE <<>>,
     report |-> o = "saved",
     failed |-> IF o = "saved" THEN failure_entries ELSE <<>>]

\* after the loop: the results are saved and run returns 0, unless writing
\* them raises
RunSave ==
    /\ run_pc = "save"
    /\ \E o \in SaveOutcomes :
         /\ o = "csv_raises" => activity_entries # <<>>
         /\ written' = Saved(o)
         /\ IF o = "saved"
            THEN /\ exit_code' = 0
                 /\ run_pc' = "cleanup"
                 /\ UNCHANGED pending
            ELSE /\ pending' = "Exception"
                 /\ run_pc' = "failed"
                 /\ UNCHANGED exit_code
    /\ UNCHANGED <<simulate_behavior, lifecycle_vars, last_stop, in_with,
                   call_vars, now, config_vars, args_duration,
                   browser_controller, total_sites, run_start, site_index,
                   counter_vars, log_vars, args_times, stop_calls>>

\* if self.activities_logged
SavesPartial == activities_logged > 0

\* except KeyboardInterrupt: partial results are saved if any activity was
\* logged, and run returns 130; an exception of the saving leaves run
RunInterrupted ==
    /\ run_pc = "interrupted"
    /\ IF SavesPartial
       THEN \E o \in SaveOutcomes :
              /\ written' = Saved(o)
              /\ IF o = "saved"
                 THEN /\ pending' = "none"
                      /\ exit_code' = 130
                 ELSE /\ pending' = "Exception"
                      /\ UNCHANGED exit_code
       ELSE /\ pending' = "none"
            /\ exit_code' = 130
            /\ UNCHANGED written
    /\ run_pc' = "cleanup"
    /\ UNCHANGED <<simulate_behavior, lifecycle_vars, last_stop, in_with,
                   call_vars, now, config_vars, args_duration,
                   browser_controller, total_sites, run_start, site_index,
                   counter_vars, log_vars, args_times, stop_calls>>

\* except Exception: return 1
RunFailed ==
    /\ run_pc = "failed"
    /\ pending' = "none"
    /\ exit_code' = 1
    /\ run_pc' = "cleanup"
    /\ UNCHANGED <<simulate_behavior, lifecycle_vars, last_stop, in_with,
                   call_vars, now, config_vars, args_duration,
                   browser_controller, total_sites, run_start, site_index,
                   counter_vars, log_vars, args_times, written, stop_calls>>

\* faulty variant: the controller is stopped only if its start succeeded
CleanupStops_OnlyIfStarted == browser_controller /\ start_result = "True"

\* if self.browser_controller
CleanupStops == browser_controller

\* finally: the controller, if one was created, is stopped; then run
\* returns exit_code, or the pending exception goes on to the caller
RunCleanup ==
    /\ run_pc = "cleanup"
    /\ IF CleanupStops
       THEN /\ StopBody("run")
            /\ stop_calls' = stop_calls + 1
       ELSE UNCHANGED <<lifecycle_vars, last_stop, stop_calls>>
    /\ run_pc' = "exited"
    /\ UNCHANGED <<simulate_behavior, in_with, call_vars, now, config_vars,
                   args_duration, browser_controller, total_sites, run_start,
                   site_index,
                   counter_vars, log_vars, args_times, written,
                   exit_code, pending>>

RunNext ==
    \/ RunLoadSites
    \/ RunCreate
    \/ RunStartBrowser
    \/ RunLoopCheck
    \/ RunVisit
    \/ RunRecheck
    \/ RunSave
    \/ RunInterrupted
    \/ RunFailed
    \/ RunCleanup

RunSpec == RunInit /\ [][RunNext]_vars

\* run goes on: each statement of run is executed in its turn, and every
\* call run makes returns or raises
RunProgress == WF_vars(RunNext)

RunLiveSpec == RunInit /\ [][RunNext]_vars /\ RunProgress

-----------------------------------------------------------------------------
(* The site catalog: ConfigLoader (src/config_loader.py)                    *)
(*                                                                          *)
(* browser_categories is the mapping json.load returns for the key         *)
(* 'browser_categories': a sequence of entries [category, urls] in the     *)
(* order of the document, each category name occurring once (a dict), and  *)
(* urls a list of strings.  A (url, category) tuple is <<url, category>>.  *)

MaxEntries == 2         \* most urls a configuration document lists

CategoryNames == {"Development", "browser internal", "Browser Internal",
                  "System/Security"}

\* the urls of the documents: 'a.com', 'b.org', 'Chrome_Internal/tab' and
\* 'x.screensaver.io'
CatalogUrls == {
    << "a", ".", "c", "o", "m" >>,
    << "b", ".", "o", "r", "g" >>,
    << "C", "h", "r", "o", "m", "e", "_", "I", "n", "t", "e", "r", "n",
        "a", "l", "/", "t", "a", "b" >>,
    << "x", ".", "s", "c", "r", "e", "e", "n", "s", "a", "v", "e", "r",
        ".", "i", "o" >> }

\* the lists of at most n urls
UrlLists(n) == UNION {[1..k -> CatalogUrls] : k \in 0..n}

\* the documents over the categories `names` with n urls at most
RECURSIVE Documents(_, _)
Documents(names, n) ==
    {<<>>} \cup
    UNION { { <<[category |-> c, urls |-> l]>> \o d :
                d \in Documents(names \ {c}, n - Len(l)) } :
            c \in names, l \in UrlLists(n) }

\* the category names get_all_sites and get_category_count skip
ReservedCategories == {"Browser Internal", "System/Security"}

\* the markers of internal pages, as get_all_sites lists them
InternalMarkers == <<
    << "b", "r", "o", "w", "s", "e", "r", "_", "i", "n", "t", "e", "r",
        "n", "a", "l" >>,
    << "b", "r", "o", "w", "s", "e", "r", "_", "n", "e", "w", "_", "t",
        "a", "b" >>,
    << "c", "h", "r", "o", "m", "e", "_", "i", "n", "t", "e", "r", "n",
        "a", "l" >>,
    << "e", "d", "g", "e", "_", "i", "n", "t", "e", "r", "n", "a", "l" >>,
    << "f", "i", "r", "e", "f", "o", "x", "_", "i", "n", "t", "e", "r",
        "n", "a", "l" >>,
    << "c", "h", "r", "o", "m", "e", "_", "e", "x", "t", "e", "n", "s",
        "i", "o", "n" >>,
    << "f", "i", "r", "e", "f", "o", "x", "_", "e", "x", "t", "e", "n",
        "s", "i", "o", "n" >>,
    << "l", "o", "g", "i", "n", "w", "i", "n", "d", "o", "w" >>,
    << "s", "c", "r", "e", "e", "n", "s", "a", "v", "e", "r" >>,
    << "l", "o", "c", "k", "_", "s", "c", "r", "e", "e", "n" >>,
    << "s", "y", "s", "t", "e", "m", "_", "s", "e", "c", "u", "r", "i",
        "t", "y" >> >>

UpperCase == <<"A", "B", "C", "D", "E", "F", "G", "H", "I", "J", "K", "L", "M",
              "N", "O", "P", "Q", "R", "S", "T", "U", "V", "W", "X", "Y", "Z">>

LowerCase == <<"a", "b", "c", "d", "e", "f", "g", "h", "i", "j", "k", "l", "m",
              "n", "o", "p", "q", "r", "s", "t", "u", "v", "w", "x", "y", "z">>

\* str.lower(), character by character
LowerChar(c) ==
    IF \E i \in DOMAIN UpperCase : UpperCase[i] = c
    THEN LowerCase[CHOOSE i \in DOMAIN UpperCase : UpperCase[i] = c]
    ELSE c

Lower(str) == [i \in 1..Len(str) |-> LowerChar(str[i])]

\* sub in str
Contains(str, sub) ==
    \E i \in 0..(Len(str) - Len(sub)) : SubSeq(str, i + 1, i + Len(sub)) = sub

\* faulty variant: the url is compared as it is written
IsInternal_CaseSensitive(u) ==
    \E k \in DOMAIN InternalMarkers : Contains(u, InternalMarkers[k])

\* any(internal in url.lower() for internal in [...])
IsInternal(u) ==
    \E k \in DOMAIN InternalMarkers : Contains(Lower(u), InternalMarkers[k])

\* the inner loop of get_all_sites: the tuples appended for one category
RECURSIVE SitesOf(_, _)
SitesOf(category, urls) ==
    IF urls = <<>>
    THEN <<>>
    ELSE (IF IsInternal(Head(urls))
          THEN <<>>
          ELSE << <<Head(urls), category>> >>)
         \o SitesOf(category, Tail(urls))

\* the outer loop of get_all_sites over browser_categories.items()
RECURSIVE AllSites(_)
AllSites(categories) ==
    IF categories = <<>>
    THEN <<>>
    ELSE (IF Head(categories).category \in ReservedCategories
          THEN <<>>
          ELSE SitesOf(Head(categories).category, Head(categories).urls))
         \o AllSites(Tail(categories))

\* ConfigLoader.__init__ has loaded a document; no TestAutomator and no
\* controller is in use
CatalogInit ==
    /\ simulate_behavior = FALSE
    /\ NewController
    /\ NoRun
    /\ NoLoad
    /\ NoParse
    /\ browser_categories \in Documents(CategoryNames, MaxEntries)
    /\ catalog_pc = "loaded"
    /\ all_sites = <<>>
    /\ NoViews

\* get_all_sites()
GetAllSites ==
    /\ catalog_pc = "loaded"
    /\ all_sites' = AllSites(browser_categories)
    /\ catalog_pc' = "returned"
    /\ UNCHANGED <<browser_categories, view_vars, simulate_behavior,
                   lifecycle_vars, last_stop, in_with, call_vars, now,
                   run_vars, load_vars, parse_vars>>

\* the markers get_sites_by_category and get_category_count list
BrowserMarkers == <<
    << "b", "r", "o", "w", "s", "e", "r", "_", "i", "n", "t", "e", "r",
        "n", "a", "l" >>,
    << "b", "r", "o", "w", "s", "e", "r", "_", "n", "e", "w", "_", "t",
        "a", "b" >>,
    << "c", "h", "r", "o", "m", "e", "_", "i", "n", "t", "e", "r", "n",
        "a", "l" >>,
    << "e", "d", "g", "e", "_", "i", "n", "t", "e", "r", "n", "a", "l" >>,
    << "f", "i", "r", "e", "f", "o", "x", "_", "i", "n", "t", "e", "r",
        "n", "a", "l" >>,
    << "c", "h", "r", "o", "m", "e", "_", "e", "x", "t", "e", "n", "s",
        "i", "o", "n" >>,
    << "f", "i", "r", "e", "f", "o", "x", "_", "e", "x", "t", "e", "n",
        "s", "i", "o", "n" >> >>

\* any(internal in url.lower() for internal in [...]) with that list
IsBrowserInternal(u) ==
    \E k \in DOMAIN BrowserMarkers : Contains(Lower(u), BrowserMarkers[k])

\* the keys of the mapping, in the order of the document
Keys(mapping) == [i \in DOMAIN mapping |-> mapping[i].category]

\* mapping[key]
Lookup(mapping, key) ==
    mapping[CHOOSE i \in DOMAIN mapping : mapping[i].category = key].urls

\* [url for url in urls if not any(...)]
RealUrls(urls) == SelectSeq(urls, LAMBDA u : ~IsBrowserInternal(u))

\* what get_sites_by_category(name) returns
SitesByCategory(mapping, name) ==
    IF \A i \in DOMAIN mapping : mapping[i].category # name
    THEN <<>>
    ELSE RealUrls(Lookup(mapping, name))

\* what get_categories() returns
Categories(mapping) ==
    SelectSeq(Keys(mapping), LAMBDA cat : cat \notin ReservedCategories)

\* what get_category_count() returns: a dict, as a function of its keys
CategoryCount(mapping) ==
    [cat \in {mapping[i].category : i \in DOMAIN mapping} \ ReservedCategories
        |-> Len(RealUrls(Lookup(mapping, cat)))]

\* the category names the views are asked for
AskedNames == CategoryNames \cup {"Social Media"}

\* get_categories()
GetCategories ==
    /\ catalog_pc = "returned"
    /\ listed_categories' = Categories(browser_categories)
    /\ catalog_pc' = "listed"
    /\ UNCHANGED <<browser_categories, all_sites, category_name,
                   sites_by_category, category_count, simulate_behavior,
                   lifecycle_vars, last_stop, in_with, call_vars, now,
                   run_vars, load_vars, parse_vars>>

\* get_category_count()
GetCategoryCount ==
    /\ catalog_pc = "listed"
    /\ category_count' = CategoryCount(browser_categories)
    /\ catalog_pc' = "counted"
    /\ UNCHANGED <<browser_categories, all_sites, category_name,
                   sites_by_category, listed_categories, simulate_behavior,
                   lifecycle_vars, last_stop, in_with, call_vars, now,
                   run_vars, load_vars, parse_vars>>

\* get_sites_by_category(category_name)
GetSitesByCategory ==
    /\ catalog_pc = "counted"
    /\ \E name \in AskedNames :
         /\ category_name' = name
         /\ sites_by_category' = SitesByCategory(browser_categories, name)
    /\ catalog_pc' = "viewed"
    /\ UNCHANGED <<browser_categories, all_sites, listed_categories,
                   category_count,
                   simulate_behavior, lifecycle_vars, last_stop, in_with,
                   call_vars, now, run_vars, load_vars, parse_vars>>

\* a client asks for the four views of the catalog in turn
CatalogNext ==
    \/ GetAllSites
    \/ GetCategories
    \/ GetCategoryCount
    \/ GetSitesByCategory

CatalogSpec == CatalogInit /\ [][CatalogNext]_vars

-----------------------------------------------------------------------------
(* TestAutomator._load_test_sites (src/test_automator.py)                   *)
(*                                                                          *)
(* The method reads the catalog and the options --categories, --sample and *)
(* --randomize.  args_categories is the option after split(',') and        *)
(* strip(); the random module is the environment.                          *)

MaxAvailable == 3       \* most urls of the one-category documents
MaxSample == 3          \* largest --sample

\* the category names a --categories option asks for
RequestNames == {"Development", "Browser Internal"}

\* a non-empty option names one category or two
RequestedLists ==
    {<<c>> : c \in RequestNames} \cup
    {<<c, d>> : c \in RequestNames, d \in RequestNames}

\* documents with the one category 'Development'
OneCategoryDocuments ==
    {<< [category |-> "Development", urls |-> l] >> : l \in UrlLists(MaxAvailable)}

\* faulty variant: only the first name of the option is looked at
IsRequested_FirstOnly(cat, requested) == requested[1] = cat

\* cat in requested_categories
IsRequested(cat, requested) == \E i \in DOMAIN requested : requested[i] = cat

\* [(url, cat) for url, cat in all_sites if cat in requested_categories]
Filtered(sites, requested) ==
    SelectSeq(sites, LAMBDA s : IsRequested(s[2], requested))

\* the list made of the entries of l at the positions f[1], f[2], ...
Pick(l, f) == [i \in DOMAIN f |-> l[f[i]]]

\* the ways to draw k positions out of n without replacement, in the order
\* drawn
Draws(k, n) ==
    {f \in [1..k -> 1..n] : \A i, j \in 1..k : i # j => f[i] # f[j]}

\* if self.args.sample and self.args.sample < len(filtered_sites)
SampleTaken(n) == args_sample # 0 /\ args_sample < n

\* what random.sample(filtered_sites, self.args.sample) may return, or the
\* list itself when no sample is taken
Sampled(l) ==
    IF SampleTaken(Len(l))
    THEN {Pick(l, f) : f \in Draws(args_sample, Len(l))}
    ELSE {l}

\* what random.shuffle may leave in the list, or the list itself
Shuffled(l) ==
    IF args_randomize
    THEN {Pick(l, f) : f \in Draws(Len(l), Len(l))}
    ELSE {l}

\* an automator whose catalog holds a document, called with a --categories
\* option or without one
FilterInit ==
    /\ simulate_behavior = FALSE
    /\ NewController
    /\ NoRun
    /\ NoParse
    /\ browser_categories \in Documents(CategoryNames, MaxEntries)
    /\ catalog_pc = "loaded"
    /\ all_sites = <<>>
    /\ NoViews
    /\ args_categories \in RequestedLists \cup {<<>>}
    /\ args_sample = 0
    /\ args_randomize = FALSE
    /\ load_pc = "ready"
    /\ test_sites = <<>>

\* an automator called with --sample or --randomize or neither
SampleInit ==
    /\ simulate_behavior = FALSE
    /\ NewController
    /\ NoRun
    /\ NoParse
    /\ browser_categories \in OneCategoryDocuments
    /\ catalog_pc = "loaded"
    /\ all_sites = <<>>
    /\ NoViews
    /\ args_categories = <<>>
    /\ args_sample \in 0..MaxSample
    /\ args_randomize \in BOOLEAN
    /\ load_pc = "ready"
    /\ test_sites = <<>>

\* _load_test_sites(): the list is returned, or sys.exit(1) is called when
\* no site is left after the filtering
LoadTestSites ==
    /\ load_pc = "ready"
    /\ LET sites == AllSites(browser_categories)
           filtered_sites == IF args_categories # <<>>
                             THEN Filtered(sites, args_categories)
                             ELSE sites
       IN  IF filtered_sites = <<>>
           THEN /\ load_pc' = "exited"
                /\ UNCHANGED <<test_sites, total_sites>>
           ELSE /\ \E sampled \in Sampled(filtered_sites) :
                      test_sites' \in Shuffled(sampled)
                /\ total_sites' = Len(test_sites')
                /\ load_pc' = "returned"
    /\ UNCHANGED <<simulate_behavior, lifecycle_vars, last_stop, in_with,
                   call_vars, now, catalog_vars, parse_vars, args_categories,
                   args_sample, args_randomize, run_pc, args_duration,
                   browser_controller, run_start, site_index,
                   counter_vars, log_vars, args_times, written,
                   exit_code, pending, stop_calls>>

LoadNext == LoadTestSites

FilterSpec == FilterInit /\ [][LoadNext]_vars

SampleSpec == SampleInit /\ [][LoadNext]_vars

-----------------------------------------------------------------------------
(* The --duration option: main and TestAutomator._parse_time_format        *)
(* (src/test_automator.py)                                                 *)
(*                                                                          *)
(* The option is a string: digits, then possibly a unit.  main replaces    *)
(* args.duration by the minutes _parse_time_format returns, and the run    *)
(* turns the minutes into its budget of seconds.                           *)

MaxDigits == 2          \* most digits of a --duration option

Digits == <<"0", "1", "2", "3", "4", "5", "6", "7", "8", "9">>

\* the digits the options of the model are written with
OptionDigits == {"0", "1", "3", "6", "9"}

\* what follows the digits: nothing, a unit in either case, or a letter
\* that is no unit
OptionSuffixes == {<<>>, <<"s">>, <<"m">>, <<"h">>, <<"H">>, <<"x">>}

DurationStrings ==
    {d \o u : d \in UNION {[1..k -> OptionDigits] : k \in 1..MaxDigits},
              u \in OptionSuffixes}

IsDigit(c) == \E i \in DOMAIN Digits : Digits[i] = c

\* str.isdigit()
IsDigits(str) == str # <<>> /\ \A i \in DOMAIN str : IsDigit(str[i])

DigitValue(c) == (CHOOSE i \in DOMAIN Digits : Digits[i] = c) - 1

\* int() of a string of digits
RECURSIVE IntOf(_)
IntOf(str) ==
    IF str = <<>>
    THEN 0
    ELSE 10 * IntOf(SubSeq(str, 1, Len(str) - 1)) + DigitValue(str[Len(str)])

\* re.match(r'^(\d+)\s*([smh]?)$', time_str), for strings without blanks:
\* the string is digits, or digits and one of the letters s, m, h
Matches(str) ==
    \/ IsDigits(str)
    \/ /\ Len(str) >= 2
       /\ IsDigits(SubSeq(str, 1, Len(str) - 1))
       /\ str[Len(str)] \in {"s", "m", "h"}

\* max(1, x)
AtLeastOne(x) == IF x < 1 THEN 1 ELSE x

\* value // 60 for value >= 0
FloorMinutes(value) == value \div 60

\* return max(1, value // 60)
SecondsToMinutes(value) == AtLeastOne(FloorMinutes(value))

\* what _parse_time_format returns for a string it accepts: minutes
ParseTimeFormat(str) ==
    LET s == Lower(str)
    IN  IF IsDigits(s)
        THEN IntOf(s)
        ELSE LET value == IntOf(SubSeq(s, 1, Len(s) - 1))
                 unit == s[Len(s)]
             IN  IF unit = "s" THEN SecondsToMinutes(value)
                 ELSE IF unit = "h" THEN value * 60
                 ELSE value

\* total_duration_seconds = self.args.duration * 60
TotalDurationSeconds == args_duration * 60

\* the command line has been read; args.duration is still the string
ParseInit ==
    /\ simulate_behavior = FALSE
    /\ NewController
    /\ NoCatalog
    /\ NoRun
    /\ NoLoad
    /\ time_str \in DurationStrings
    /\ parse_pc = "read"

\* main: the duration is parsed; a string _parse_time_format does not
\* accept (ValueError) and a duration of 0 end main with status 1
ParseDuration ==
    /\ parse_pc = "read"
    /\ IF ~Matches(Lower(time_str))
       THEN /\ parse_pc' = "invalid"
            /\ UNCHANGED args_duration
       ELSE /\ args_duration' = ParseTimeFormat(time_str)
            /\ parse_pc' = IF args_duration' <= 0 THEN "rejected" ELSE "parsed"
    /\ UNCHANGED <<simulate_behavior, lifecycle_vars, last_stop, in_with,
                   call_vars, now, catalog_vars, load_vars, time_str, run_pc,
                   browser_controller, total_sites, run_start, site_index,
                   counter_vars, log_vars, args_times, written,
                   exit_code, pending, stop_calls>>

ParseNext == ParseDuration

ParseSpec == ParseInit /\ [][ParseNext]_vars

-----------------------------------------------------------------------------
(* Long visits with the behaviour simulation                                *)
(*                                                                          *)
(* The same controller, constructed with simulate_behavior = True, making  *)
(* visits whose dwell is long enough for the scroll loop to reach its cap  *)
(* of max_scrolls.                                                          *)

\* the shortest dwell the cap of the scroll loop binds in: max_scrolls
\* pauses of the shortest length (2 s) and a second to spare
LongDwell == 2 * max_scrolls + 1

LongDwellTimes == {LongDwell}

SimInit == Init /\ simulate_behavior

\* the one start() call of a controller that is started once
FirstStart == start_result = "none" /\ Start

LongVisitCall == \E d \in LongDwellTimes : VisitEnter(<<"a">>, d, 0)

SimNext ==
    \/ FirstStart
    \/ LongVisitCall
    \/ VisitReturned
    \/ Get
    \/ ReadyWait
    \/ SimPage
    \/ SimViewport
    \/ SimScroll
    \/ SimRest

SimSpec == SimInit /\ [][SimNext]_vars

-----------------------------------------------------------------------------
(* Long visits in either mode, with progress                                *)
(*                                                                          *)
(* visit_site runs in the caller's thread: once called, each of its steps  *)
(* is taken as soon as the driver call or the sleep before it has          *)
(* returned.  The steps of a call are weakly fair on that account; the     *)
(* calls themselves (start, visit_site, taking the outcome) are not.       *)

LiveNext ==
    \/ FirstStart
    \/ LongVisitCall
    \/ VisitReturned
    \/ Get
    \/ ReadyWait
    \/ Dwell
    \/ SimPage
    \/ SimViewport
    \/ SimScroll
    \/ SimRest

VisitProgress ==
    /\ WF_vars(Get)
    /\ WF_vars(ReadyWait)
    /\ WF_vars(Dwell)
    /\ WF_vars(SimPage)
    /\ WF_vars(SimViewport)
    /\ WF_vars(SimScroll)
    /\ WF_vars(SimRest)

LiveSpec == Init /\ [][LiveNext]_vars /\ VisitProgress

-----------------------------------------------------------------------------
(* Vocabulary of the properties *)

\* visit_site has returned and the caller holds the outcome
Returned == pc = "returned"

\* the call in progress or just returned was made on a started controller
OnStarted == pc # "idle" /\ driver # None

\* the driver.get calls of the call, and its backoff sleeps
GetIndexes == {i \in DOMAIN trace : trace[i].op = "get"}

SleepIndexes == {i \in DOMAIN trace : trace[i].op = "sleep"}

NumGets == Cardinality(GetIndexes)

NumBackoffs == Cardinality(SleepIndexes)

Retryable == {"TimeoutException", "WebDriverException"}

\* every failed attempt so far failed with a timeout or a driver-level error
OnlyRetryableFails == \A i \in DOMAIN fails : fails[i] \in Retryable

\* the attempt made last did not fail: every failure lies before it
LastAttemptLoaded == NumGets = Len(fails) + 1

HasAttempts == "attempts" \in DOMAIN result

-----------------------------------------------------------------------------
(* C1: for every visit_site call on a started controller, whatever the     *)
(* navigation outcomes are, the driver's page load is invoked at most 3    *)
(* times and the attempts value of the returned outcome lies in 1..3.      *)
C1_BoundedAttempts ==
    OnStarted =>
        /\ NumGets <= 3
        /\ Returned => HasAttempts /\ result.attempts \in 1..3

\* a call that used all three attempts and mixed the kinds of failure
C1_Witness ==
    /\ Returned
    /\ driver # None
    /\ NumGets = 3
    /\ HasAttempts /\ result.attempts = 3
    /\ fails = <<"TimeoutException", "WebDriverException">>

C3_ExhaustedTimeout ==
    (fails = <<"TimeoutException", "TimeoutException", "TimeoutException">>) =>
        /\ Returned
        /\ result.status = "timeout"
        /\ HasAttempts /\ result.attempts = 3
        /\ NumGets = 3
        /\ NumBackoffs = 2
        /\ trace[Len(trace)].op = "get"
        /\ dwell_sleeps = 0

C3_Witness ==
    /\ Returned
    /\ fails = <<"TimeoutException", "TimeoutException", "TimeoutException">>
    /\ result.status = "timeout"

(* C4 as stated: on a started controller every returned outcome whose      *)
(* status is 'timeout' or 'error' has attempts = 3, whatever kind of        *)
(* failure each attempt had.                                                *)
C4_FailureOnlyWhenExhausted ==
    (Returned /\ driver # None /\ result.status \in {"timeout", "error"}) =>
        HasAttempts /\ result.attempts = 3

(* C4 amended: a 'timeout' outcome, and an 'error' outcome for a           *)
(* driver-level error, is returned only after 3 failed attempts, each a    *)
(* timeout or a driver-level error; an exception that is neither is not    *)
(* retried and returns 'error' at once, with attempts = the number of the  *)
(* attempt on which it was raised.                                         *)
C4_FailureAttempts ==
    (Returned /\ driver # None /\ result.status \in {"timeout", "error"}) =>
        /\ HasAttempts
        /\ Len(fails) \in 1..3
        /\ result.attempts = Len(fails)
        /\ NumGets = Len(fails)
        /\ \A i \in 1..(Len(fails) - 1) : fails[i] \in Retryable
        /\ IF fails[Len(fails)] \in Retryable
           THEN result.attempts = 3
           ELSE result.status = "error"

\* an unexpected exception on the second attempt ends the call there
C4_Witness ==
    /\ Returned
    /\ driver # None
    /\ fails = <<"TimeoutException", "Exception">>
    /\ result.status = "error"
    /\ result.attempts = 2

(* C5 as stated: an outcome has status 'timeout' only if every attempt of  *)
(* the call timed out; a call whose attempts mix timeouts and driver-level *)
(* errors does not return 'timeout'.                                       *)
C5_TimeoutOnlyIfAllTimedOut ==
    (Returned /\ result.status = "timeout") =>
        \A i \in DOMAIN fails : fails[i] = "TimeoutException"

(* C5 amended: an outcome has status 'timeout' only if the third, final    *)
(* attempt timed out; the earlier attempts may have failed with a timeout  *)
(* or a driver-level error.  An exhausted call returns 'timeout' exactly   *)
(* when its last attempt timed out, and 'error' otherwise.                 *)
C5_TimeoutIsLastFailure ==
    /\ (Returned /\ result.status = "timeout") =>
          /\ Len(fails) = 3
          /\ fails[3] = "TimeoutException"
          /\ OnlyRetryableFails
    /\ (Returned /\ driver # None /\ Len(fails) = 3) =>
          (result.status = "timeout" <=> fails[3] = "TimeoutException")

\* driver-level errors on the first two attempts, a timeout on the third
C5_Witness ==
    /\ Returned
    /\ fails = <<"WebDriverException", "WebDriverException", "TimeoutException">>
    /\ result.status = "timeout"

\* the url argument starts with 'http://' or with 'https://'
HasHttpScheme(u) ==
    \/ /\ Len(u) >= 7
       /\ [i \in 1..7 |-> u[i]] = <<"h", "t", "t", "p", ":", "/", "/">>
    \/ /\ Len(u) >= 8
       /\ [i \in 1..8 |-> u[i]] = <<"h", "t", "t", "p", "s", ":", "/", "/">>

(* C6: every navigation request of a call, on the first attempt and on     *)
(* each retry, is for 'https://' + url when the url argument starts with   *)
(* neither 'http://' nor 'https://', and for the url argument unchanged    *)
(* when it does.                                                           *)
C6_RequestedUrl ==
    \A i \in GetIndexes :
        trace[i].url = IF HasHttpScheme(url_arg)
                       THEN url_arg
                       ELSE <<"h", "t", "t", "p", "s", ":", "/", "/">> \o url_arg

\* a url without a scheme, requested three times
C6_Witness ==
    /\ Returned
    /\ ~HasHttpScheme(url_arg)
    /\ NumGets = 3
    /\ \A i \in GetIndexes : Len(trace[i].url) = Len(url_arg) + 8

(* C7: visit_site never raises to its caller and never returns without an  *)
(* outcome: whatever the driver does during navigation, the ready wait or  *)
(* the dwell, the value returned is a structured outcome record.           *)
C7_AlwaysAnOutcome ==
    Returned =>
        /\ result.status \in {"success", "timeout", "error"}
        /\ {"url", "status", "duration"} \subseteq DOMAIN result

\* an exception that is neither a timeout nor a driver error, after a retry
C7_Witness ==
    /\ Returned
    /\ Len(fails) = 2
    /\ fails[2] = "Exception"
    /\ result.status = "error"

(* C8: every outcome visit_site returns, started or not, has a status in   *)
(* {success, timeout, error}, a duration >= 0 and an integer attempts      *)
(* field >= 1.                                                             *)
C8_OutcomeShape ==
    Returned =>
        /\ result.status \in {"success", "timeout", "error"}
        /\ result.duration >= 0
        /\ HasAttempts
        /\ result.attempts >= 1

(* C9: called while no session is active, visit_site returns the error     *)
(* outcome with the message 'Browser not started' and duration 0, makes no *)
(* call on a driver and sleeps for no time.                                *)
C9_NotStarted ==
    (Returned /\ driver = None) =>
        /\ result = [url |-> url_arg, status |-> "error",
                     error |-> "Browser not started", duration |-> 0]
        /\ ~driver_called
        /\ sim_scripts = 0
        /\ trace = <<>>
        /\ dwell_sleeps = 0
        /\ return_time = entry_time

\* a call made after stop()
C9_Witness ==
    /\ Returned
    /\ driver = None
    /\ quit_log # <<>>
    /\ result.status = "error"

(* C10 as stated: on success the duration is the wall-clock time of the    *)
(* whole call, measured from the entry into visit_site until the outcome   *)
(* is produced.                                                            *)
C10_DurationFromEntry ==
    (Returned /\ result.status = "success") =>
        result.duration = return_time - entry_time

(* C10 amended: on success the duration is the wall-clock time of the      *)
(* successful attempt alone (its navigation, its ready wait and the        *)
(* dwell), measured from the start of that attempt; the failed attempts    *)
(* before it and the backoff pauses are not counted.                       *)
C10_DurationOfLastAttempt ==
    (Returned /\ result.status = "success") =>
        /\ result.duration = return_time - start_time
        /\ result.duration >= dwell_slept
        /\ start_time - entry_time >= 8 * Len(fails)
        /\ Len(fails) = 0 => start_time = entry_time

\* a success after two failed attempts: the duration leaves them out
C10_Witness ==
    /\ Returned
    /\ result.status = "success"
    /\ Len(fails) = 2
    /\ result.duration > 0
    /\ result.duration < return_time - entry_time

(* C11: every success outcome of visit_site carries a page_title field     *)
(* (the title read from the driver after the load, or the empty string     *)
(* when reading it fails).  The record built at lines 215-220 has the keys *)
(* url, status, duration and attempts only.                                *)
C11_SuccessHasPageTitle ==
    (Returned /\ result.status = "success") =>
        "page_title" \in DOMAIN result

(* C12: with behaviour simulation disabled, the dwell phase of a           *)
(* successful visit is exactly one blocking sleep whose length is exactly  *)
(* duration_seconds, and no scroll script is sent to the driver.           *)
C12_PlainDwell ==
    (Returned /\ result.status = "success" /\ ~simulate_behavior) =>
        /\ dwell_sleeps = 1
        /\ dwell_slept = duration_seconds
        /\ last_sleep = [why |-> "dwell", secs |-> duration_seconds,
                         left |-> duration_seconds]
        /\ sim_scripts = 0

\* a plain dwell of two seconds after one failed attempt
C12_Witness ==
    /\ Returned
    /\ result.status = "success"
    /\ ~simulate_behavior
    /\ duration_seconds = 2
    /\ Len(fails) = 1
    /\ dwell_slept = 2

\* the sleeps the dwell phase has carried out (a time.sleep that raised
\* ValueError has slept nothing)
Slept == last_sleep.why \in {"dwell", "pause", "rest", "fallback"}

(* C13: with behaviour simulation enabled, a dwell of duration D performs  *)
(* at most 5 scroll actions; every pause slept is non-negative and no      *)
(* longer than the dwell budget left when the pause starts, that is after  *)
(* the scroll script has taken its time; and the time slept in the dwell   *)
(* never exceeds D in total.                                               *)
C13_BoundedSimulation ==
    simulate_behavior =>
        /\ scroll_count <= 5
        /\ sim_scripts <= 2 + 5
        /\ Slept => /\ last_sleep.secs >= 0
                    /\ last_sleep.secs <= last_sleep.left
                    /\ last_sleep.left <= duration_seconds
        /\ dwell_slept <= duration_seconds

\* five scrolls made with dwell time to spare: the cap ends the loop, and
\* the rest of the dwell is slept out
C13_Witness ==
    /\ Returned
    /\ simulate_behavior
    /\ scroll_count = 5
    /\ sim_scripts = 7
    /\ dwell_sleeps = 6
    /\ last_sleep.why = "rest"

\* the positions inside _simulate_user_behavior
SimPcs == {"sim_page", "sim_viewport", "sim_loop", "sim_rest"}

\* a step taken inside the simulation stays there or returns success, and
\* leaves the retry loop as it was
SimStepSucceeds ==
    pc \in SimPcs =>
        /\ pc' \in SimPcs \cup {"returned"}
        /\ attempt' = attempt
        /\ fails' = fails
        /\ trace' = trace
        /\ pc' = "returned" =>
              /\ result'.status = "success"
              /\ result'.attempts = Len(fails) + 1
              /\ NumGets = Len(fails) + 1
              /\ result'.duration >= duration_seconds

(* C14: whatever a step of the behaviour simulation does, an exception     *)
(* raised by a script or by a pause included, the call stays in the        *)
(* simulation or returns status 'success'; the attempts made, the failures *)
(* recorded and the navigations and backoff pauses stay as they were, the  *)
(* attempts value is that of the attempt that loaded the page, and the     *)
(* dwell has lasted duration_seconds at least when the call returns.       *)
C14_SimulationNeverFails == [][SimStepSucceeds]_vars

\* a script of the simulation raised on the second attempt with dwell time
\* left: the rest was slept out and the visit succeeded with attempts = 2
C14_Witness ==
    /\ Returned
    /\ result.status = "success"
    /\ last_sleep.why = "fallback"
    /\ Len(fails) = 1
    /\ result.attempts = 2
    /\ NumGets = 2

\* visit_site has been called and has not returned yet
InCall == pc \notin {"idle", "returned"}

\* the bounds on what a call does, and the shape of what it returns
BoundedCall ==
    /\ NumGets <= 3
    /\ NumBackoffs <= 2
    /\ scroll_count <= 5
    /\ Returned => result.status \in {"success", "timeout", "error"}
    /\ InCall => result = NoResult

C18_FailedStartHoldsNoDriver ==
    /\ start_result \in {"none", "True", "False"}
    /\ start_result = "False" => driver = None
    /\ (Returned /\ start_result = "False") =>
          /\ result.status = "error"
          /\ result.error = "Browser not started"

\* how often quit() was invoked on session n
QuitCount(n) == Cardinality({i \in DOMAIN quit_log : quit_log[i] = n})

\* a stop() has returned and no start() has been called since
Stopped == last_stop.via # "none"

\* what holds once stop() has returned
AfterStop ==
    Stopped =>
        /\ driver = None
        /\ last_stop.session # None =>
              /\ quit_log # <<>>
              /\ quit_log[Len(quit_log)] = last_stop.session
              /\ QuitCount(last_stop.session) = 1
              /\ last_stop.quit \in {"ok", "raises"}
        /\ last_stop.session = None => last_stop.quit = "not called"

\* a stop() on a controller that holds no driver calls no driver
StopWithoutDriverIsSilent ==
    (driver = None /\ last_stop' # last_stop /\ last_stop'.via # "none") =>
        /\ quit_log' = quit_log
        /\ driver' = None
        /\ last_stop'.quit = "not called"

(* C17: after stop() returns, called directly or by __exit__ on a normal   *)
(* or an exceptional exit of the with-block, and whether or not quit()     *)
(* raised, the driver handle is None and quit() was invoked exactly once   *)
(* on the session that was live; a further stop() makes no driver call.    *)
C17_StopReleasesOnce ==
    /\ []AfterStop
    /\ [][StopWithoutDriverIsSilent]_vars

\* the with-block was left by an exception and quit() raised: the handle
\* is cleared and the session was quit once
C17_Witness ==
    /\ last_stop.via = "exit_exception"
    /\ last_stop.quit = "raises"
    /\ driver = None
    /\ QuitCount(last_stop.session) = 1

\* run has returned, or an exception has left it
RunExited == run_pc = "exited"

(* C16: on every exit path of run after the controller has been created    *)
(* (normal completion, browser start failure, KeyboardInterrupt during a   *)
(* visit or a pause, any other exception) stop() is called on the          *)
(* controller before run returns, so that no browser session the run       *)
(* opened is still open: the controller holds no driver and every session  *)
(* created has been quit.                                                  *)
C16_StopOnEveryExit ==
    /\ (RunExited /\ browser_controller) =>
          /\ stop_calls = 1
          /\ last_stop.via = "run"
          /\ driver = None
          /\ Len(quit_log) = next_session
    /\ ~RunExited => stop_calls = 0

\* the user interrupted the pause of the second visit: run returns 130 and
\* the session has been quit
C16_Witness ==
    /\ RunExited
    /\ exit_code = 130
    /\ site_index = 2
    /\ activities_logged = sites_visited + 1
    /\ stop_calls = 1
    /\ quit_log = <<1>>

(* C19: if the browser session fails to start, run returns a non-zero exit *)
(* code without entering the visit loop: no site is visited, no activity   *)
(* is logged and no failed site is recorded.                               *)
C19_StartFailureIsFatal ==
    (run_pc # "none" /\ start_result = "False") =>
        /\ run_pc \in {"cleanup", "exited"}
        /\ exit_code = 1
        /\ pending = "none"
        /\ run_start = NoTime
        /\ site_index = 0
        /\ sites_visited = 0
        /\ sites_failed = 0
        /\ activities_logged = 0
        /\ failed_sites = 0

\* start() failed after the session was created: run has returned 1
C19_Witness ==
    /\ RunExited
    /\ start_result = "False"
    /\ next_session = 1
    /\ exit_code = 1
    /\ site_index = 0

\* the places of a document: <<i, j>> is url j of category i
Places ==
    UNION { {<<i, j>> : j \in DOMAIN browser_categories[i].urls} :
            i \in DOMAIN browser_categories }

UrlAt(p) == browser_categories[p[1]].urls[p[2]]

CategoryAt(p) == browser_categories[p[1]].category

\* url u holds marker m at some offset, letter case set aside
HoldsMarker(u, m) ==
    \E off \in 0..(Len(u) - Len(m)) :
        \A i \in 1..Len(m) : LowerChar(u[off + i]) = m[i]

HoldsAnyMarker(u) ==
    \E k \in DOMAIN InternalMarkers : HoldsMarker(u, InternalMarkers[k])

\* the places whose entry is to be returned
Eligible ==
    {p \in Places : /\ CategoryAt(p) \notin {"Browser Internal", "System/Security"}
                    /\ ~HoldsAnyMarker(UrlAt(p))}

\* place q comes no later than place p in the document
NoLater(q, p) == q[1] < p[1] \/ (q[1] = p[1] /\ q[2] <= p[2])

\* the position of the entry of an eligible place in the list returned
Rank(p) == Cardinality({q \in Eligible : NoLater(q, p)})

(* C20: for every configuration document, no pair get_all_sites() returns  *)
(* has a reserved category ('Browser Internal' or 'System/Security') and   *)
(* no url returned contains an internal-page marker, letter case set       *)
(* aside; every other configured (url, category) entry is returned, once   *)
(* per occurrence and in the order of the configuration.                   *)
C20_EligibleSitesOnly ==
    catalog_pc = "returned" =>
        /\ \A k \in DOMAIN all_sites :
              /\ all_sites[k][2] \notin {"Browser Internal", "System/Security"}
              /\ ~HoldsAnyMarker(all_sites[k][1])
        /\ Len(all_sites) = Cardinality(Eligible)
        /\ \A p \in Eligible : all_sites[Rank(p)] = <<UrlAt(p), CategoryAt(p)>>

\* a reserved category is skipped, a url with a marker in capitals is
\* dropped, and the url after it is returned
C20_Witness ==
    /\ catalog_pc = "returned"
    /\ Len(browser_categories) = 2
    /\ browser_categories[1].category = "System/Security"
    /\ Len(browser_categories[1].urls) = 0
    /\ browser_categories[2].category = "Development"
    /\ Len(browser_categories[2].urls) = 2
    /\ HoldsMarker(browser_categories[2].urls[1], InternalMarkers[3])
    /\ Len(all_sites) = 1
    /\ all_sites[1] = <<browser_categories[2].urls[2], "Development">>


\* the (url, category) entries of the configuration document
ConfiguredPairs == {<<UrlAt(p), CategoryAt(p)>> : p \in Places}

\* how often the document lists entry e
ConfiguredTimes(e) ==
    Cardinality({p \in Places : <<UrlAt(p), CategoryAt(p)>> = e})

\* how often the list l holds e
Occurrences(l, e) == Cardinality({i \in DOMAIN l : l[i] = e})

Entries(l) == {l[i] : i \in DOMAIN l}

\* _load_test_sites is over: it returned test_sites, or left through
\* sys.exit with no list
LoadOver == load_pc \in {"returned", "exited"}

(* C21, as stated: for any list of requested category names, the sites      *)
(* loaded are the union of exactly those categories' configured entries    *)
(* minus the urls containing an internal marker: each such entry is loaded *)
(* as often as the configuration lists it, and nothing else is loaded.     *)
C21_RequestedUnion ==
    (LoadOver /\ args_categories # <<>>) =>
        \A e \in ConfiguredPairs \cup Entries(test_sites) :
            Occurrences(test_sites, e) =
                IF /\ e[2] \in Entries(args_categories)
                   /\ ~HoldsAnyMarker(e[1])
                THEN ConfiguredTimes(e)
                ELSE 0

(* C21, amended: for any list of requested category names, the sites       *)
(* loaded are the configured entries of the requested categories that are  *)
(* not reserved ('Browser Internal', 'System/Security'), minus the urls    *)
(* containing an internal marker, each as often as the configuration lists *)
(* it; a reserved category contributes nothing even when it is requested,  *)
(* and no entry of a category that was not requested is loaded.            *)
C21_RequestedEligibleUnion ==
    (LoadOver /\ args_categories # <<>>) =>
        \A e \in ConfiguredPairs \cup Entries(test_sites) :
            Occurrences(test_sites, e) =
                IF /\ e[2] \in Entries(args_categories)
                   /\ e[2] \notin {"Browser Internal", "System/Security"}
                   /\ ~HoldsAnyMarker(e[1])
                THEN ConfiguredTimes(e)
                ELSE 0

\* 'Browser Internal' and 'Development' are requested, each lists a url
\* without a marker, and the one of 'Development' alone is loaded
C21_Witness ==
    /\ load_pc = "returned"
    /\ args_categories = <<"Browser Internal", "Development">>
    /\ Len(browser_categories) = 2
    /\ browser_categories[1].category = "Browser Internal"
    /\ browser_categories[2].category = "Development"
    /\ Len(browser_categories[1].urls) = 1
    /\ Len(browser_categories[2].urls) = 1
    /\ ~HoldsAnyMarker(browser_categories[1].urls[1])
    /\ test_sites = << <<browser_categories[2].urls[1], "Development">> >>


\* how often the document lists e at a place whose entry is eligible
EligibleTimes(e) ==
    Cardinality({p \in Eligible : <<UrlAt(p), CategoryAt(p)>> = e})

\* the list l holds every available entry as often as the document does,
\* and nothing else
FullAvailableSet(l) ==
    /\ Len(l) = Cardinality(Eligible)
    /\ \A i \in DOMAIN l : Occurrences(l, l[i]) = EligibleTimes(l[i])

(* C22, as stated: with a sample size N that is at least the number of     *)
(* available sites the full available set is returned; with a smaller N    *)
(* exactly N entries are returned, pairwise distinct and each drawn from   *)
(* the available set.                                                      *)
C22_SampleOfDistinctEntries ==
    (load_pc = "returned" /\ args_categories = <<>> /\ args_sample # 0) =>
        IF args_sample >= Cardinality(Eligible)
        THEN FullAvailableSet(test_sites)
        ELSE /\ Len(test_sites) = args_sample
             /\ \A i, j \in DOMAIN test_sites :
                    i # j => test_sites[i] # test_sites[j]
             /\ \A i \in DOMAIN test_sites : EligibleTimes(test_sites[i]) > 0


(* C23: every site entry get_all_sites() returns has a non-empty url that  *)
(* is normalized to include a scheme prefix ('a.com' of the configuration  *)
(* is returned as 'https://a.com').                                        *)
C23_ReturnedUrlsHaveScheme ==
    catalog_pc = "returned" =>
        \A k \in DOMAIN all_sites :
            /\ all_sites[k][1] # <<>>
            /\ HasHttpScheme(all_sites[k][1])


\* the digits of the option, and the letter after them if there is one
DigitsPart(str) ==
    IF IsDigit(str[Len(str)]) THEN str ELSE SubSeq(str, 1, Len(str) - 1)

UnitPart(str) == IF IsDigit(str[Len(str)]) THEN "" ELSE str[Len(str)]

RECURSIVE TenTo(_)
TenTo(n) == IF n = 0 THEN 1 ELSE 10 * TenTo(n - 1)

RECURSIVE WeightedSum(_, _)
WeightedSum(str, i) ==
    IF i > Len(str)
    THEN 0
    ELSE DigitValue(str[i]) * TenTo(Len(str) - i) + WeightedSum(str, i + 1)

\* the number N a duration string is written with
NumberOf(str) == WeightedSum(DigitsPart(str), 1)

(* C24: the budget in seconds a run derives from a duration string is      *)
(* 60*N for a bare number N and for 'Nm', 3600*N for 'Nh', and exactly N   *)
(* for 'Ns' ('90s' gives 90 seconds, '30' gives 1800 seconds).             *)
C24_BudgetOfDurationString ==
    parse_pc = "parsed" =>
        TotalDurationSeconds =
            IF UnitPart(time_str) \in {"h", "H"} THEN 3600 * NumberOf(time_str)
            ELSE IF UnitPart(time_str) \in {"s", "S"} THEN NumberOf(time_str)
            ELSE 60 * NumberOf(time_str)


\* run has saved its results after the loop and returned 0
Flushed == run_pc = "exited" /\ exit_code = 0

(* C25: when the results of a run are flushed, the CSV holds exactly one   *)
(* row per visit performed during the run, for successful and for failed   *)
(* visits alike, in the order the visits were made.                        *)
C25_CsvRowPerVisit ==
    (Flushed /\ visit_log # <<>>) =>
        /\ written.csv
        /\ Len(written.rows) = Len(visit_log)
        /\ \A i \in DOMAIN written.rows :
              /\ written.rows[i].visit = i
              /\ written.rows[i].site = visit_log[i]

\* a run has ended, by the expiry of its budget or by an interruption of
\* the user, and run has returned
EndedRun == run_pc = "exited" /\ run_start # NoTime /\ exit_code \in {0, 130}

(* C26: every failed visit of a run is recorded with its url and reason,   *)
(* and whenever a run that recorded at least one failed visit ends, by     *)
(* budget expiry or by user interruption, the final summary report is      *)
(* written and enumerates every failed url with its reason.                *)
C26_FailuresReported ==
    /\ Len(failure_entries) = sites_failed
    /\ (EndedRun /\ failure_entries # <<>>) =>
           /\ written.report
           /\ written.failed = failure_entries


\* the seconds elapsed since the run started, and its budget
RunElapsed == now - run_start

RunBudget == args_duration * 60

\* a step that starts a visit is taken within the budget
VisitStartsWithinBudget ==
    site_index' # site_index =>
        /\ run_start # NoTime
        /\ RunElapsed < RunBudget

\* the visits so far took the sites cyclically in list order
CyclicOrder ==
    \A n \in DOMAIN visit_log : visit_log[n] = ((n - 1) % total_sites) + 1

\* the loop is between two visits and the budget has expired
BudgetExpired ==
    /\ run_pc \in {"loop", "recheck"}
    /\ RunElapsed >= RunBudget

\* run is over with the visits it had made when the budget expired; it
\* has written its results, or writing them has raised
FlushedOrFailed ==
    /\ run_pc = "exited"
    /\ \/ exit_code = 0 /\ written.report /\ written.rows = activity_entries
                        /\ written.failed = failure_entries
       \/ exit_code = 1

(* C27: the loop starts a visit only while the time elapsed since the run  *)
(* started is strictly less than the budget of duration * 60 seconds, and  *)
(* takes the sites cyclically in list order; once the budget has expired   *)
(* no further visit is started, the loop ends, and the results are         *)
(* flushed (unless writing a file raises, and run returns 1).              *)
C27_BudgetedCyclicLoop ==
    /\ [][VisitStartsWithinBudget]_vars
    /\ []CyclicOrder
    /\ (BudgetExpired ~> FlushedOrFailed)

\* three visits of a list of two sites fitted into the budget, the third
\* took the first site again, and the results were written after it
C27_Witness ==
    /\ run_pc = "exited"
    /\ exit_code = 0
    /\ total_sites = 2
    /\ visit_log = <<1, 2, 1>>
    /\ RunElapsed >= RunBudget
    /\ written.report


\* the run is between two visits: the last visit is complete and the next
\* has not been started
BetweenVisits == run_pc \in {"loop", "visit", "recheck", "save"}

ActivityVisits == {activity_entries[i].visit : i \in DOMAIN activity_entries}

FailureVisits == {failure_entries[i].visit : i \in DOMAIN failure_entries}

\* each completed visit has been recorded exactly once
RecordedOnce ==
    BetweenVisits =>
        /\ sites_visited + sites_failed = site_index
        /\ failed_sites = sites_failed
        /\ Len(failure_entries) = sites_failed
        /\ activities_logged = sites_visited
        /\ Len(activity_entries) = sites_visited
        /\ ActivityVisits \cap FailureVisits = {}

\* l is the beginning of m
IsPrefix(l, m) == Len(l) <= Len(m) /\ SubSeq(m, 1, Len(l)) = l

\* a step removes or changes no entry of the two lists
AppendOnly ==
    /\ IsPrefix(activity_entries, activity_entries')
    /\ IsPrefix(failure_entries, failure_entries')

(* C30: between visits of a run, each completed visit has been recorded    *)
(* exactly once: sites_visited + sites_failed is the number of completed   *)
(* visits, len(failed_sites) = sites_failed, len(activities_logged) =      *)
(* sites_visited, no visit is recorded both as a logged activity and as a  *)
(* failed site, and entries already appended to the two lists are never    *)
(* removed or changed.                                                     *)
C30_EachVisitRecordedOnce == []RecordedOnce /\ [][AppendOnly]_vars


\* the sessions created so far, and those of them quit() was not invoked on
Created == 1..next_session

Live == {n \in Created : QuitCount(n) = 0}

(* C28: every browser session a controller creates is released: for any    *)
(* sequence of start(), stop() and context-manager enter and exit calls,   *)
(* start() on an already started controller included, at most one session *)
(* is live at any time and, once a stop() has returned, as many sessions   *)
(* have been quit as were created.                                         *)
C28_EverySessionReleased ==
    /\ Cardinality(Live) <= 1
    /\ Stopped => (Live = {} /\ Len(quit_log) = next_session)


\* the urls paired with category c in the list get_all_sites() returned
PairedUrls(c) ==
    LET paired == SelectSeq(all_sites, LAMBDA s : s[2] = c)
    IN  [i \in DOMAIN paired |-> paired[i][1]]

(* C29: the views of the catalog agree for every configuration document:   *)
(* for every category c, get_sites_by_category(c) is exactly the list of   *)
(* urls paired with c in get_all_sites(), and get_category_count() maps c  *)
(* to the length of that list and has an entry only for the categories     *)
(* get_categories() lists.                                                 *)
C29_ViewsAgree ==
    catalog_pc = "viewed" =>
        /\ sites_by_category = PairedUrls(category_name)
        /\ DOMAIN category_count = Entries(listed_categories)
        /\ \A c \in DOMAIN category_count :
              category_count[c] = Len(PairedUrls(c))

====
